---- MODULE Spec2Model ----
(***************************************************************************)
(* Model of JSONtoMySQL (src/JSONtoMySQL.py): type inference, schema       *)
(* construction, destructive table creation, batch insertion and the       *)
(* per-file / per-directory import drivers, against a MySQL session with   *)
(* autocommit off.                                                         *)
(***************************************************************************)
EXTENDS Integers, Sequences, FiniteSets, TLC

VARIABLES
    values,               \* _determine_column_type: the list under analysis
    column_type,          \* _determine_column_type: its result ("none" before the call)
    files,                \* the directory: sequence of entries [name, ext, content]
    db,                   \* storage, committed tables: name -> [exists, cols, types, rows]
    pend,                 \* storage, rows inserted by the open transaction: name -> rows
    pc,                   \* position of import_directory: "idle", "loop", "returned"
    json_files,           \* import_directory: the glob result (indices into files)
    idx,                  \* import_directory: number of files already processed
    successful_imports,   \* import_directory: names of files whose import returned True
    failed_imports,       \* import_directory: names of files whose import returned False
    summary,              \* import_directory: the returned dictionary
    ret,                  \* last import_json_file call: what it was given and returned
    stmts,                \* statements issued on the connection during this run
    imported,             \* history: name -> the table snapshots seen after its successful imports
    calls,                \* history: the import_json_file calls of this run, [file, success, msg]
    runs,                 \* number of import_directory calls started
    connection_verified,  \* ImporterGUI.connection_verified
    directory_var,        \* ImporterGUI.directory_var: 0 is the empty string, 1 a directory
    execute_btn,          \* state of the Execute Import button: "normal" or "disabled"
    test_conn_btn,        \* state of the Test Connection button
    form,                 \* the connection entries: [ver, filled]; every edit gives a new ver
    test_threads,         \* run_connection_test threads: slot -> [pc, ver, ok]
    import_threads,       \* run_import threads: slot -> pc
    tested                \* history: the form versions a test connected with successfully

inferVars == <<values, column_type>>
dirVars   == <<files, db, pend, pc, json_files, idx, successful_imports,
               failed_imports, summary, ret, stmts, imported, calls, runs>>
guiVars   == <<connection_verified, directory_var, execute_btn, test_conn_btn,
               form, test_threads, import_threads, tested>>
vars      == <<values, column_type, files, db, pend, pc, json_files, idx,
               successful_imports, failed_imports, summary, ret, stmts,
               imported, calls, runs, connection_verified, directory_var,
               execute_btn, test_conn_btn, form, test_threads, import_threads,
               tested>>

(***************************************************************************)
(* Bounds                                                                  *)
(***************************************************************************)
MaxVals  == 3     \* longest value list given to _determine_column_type
MaxFiles == 2     \* most entries in a directory
MaxRuns  == 2     \* most import_directory calls on one connection
MaxRecs  == 2     \* most records in a generated record set
MaxKeys  == 2     \* most fields in a generated record
MaxEdits == 2     \* most edits of the connection entries
MaxTests == 2     \* most run_connection_test threads alive at once
MaxImports == 2   \* most run_import threads alive at once

(***************************************************************************)
(* JSON values.  Every value is [tag, neg, hi, lo].  A Python int is       *)
(* unbounded; it is held in sign-magnitude form, magnitude hi*2^16 + lo,   *)
(* so that 2^31 and its neighbours are exact.  A string is held by its     *)
(* length (lo).  A Boolean holds 0/1 in lo.                                *)
(***************************************************************************)
LimbBase == 256 * 256

Null          == [tag |-> "Null",      neg |-> FALSE, hi |-> 0, lo |-> 0]
Bool(b)       == [tag |-> "Boolean",   neg |-> FALSE, hi |-> 0, lo |-> IF b THEN 1 ELSE 0]
MkInt(n, h, l) == [tag |-> "Integer",   neg |-> n,     hi |-> h, lo |-> l]
Float         == [tag |-> "Float",     neg |-> FALSE, hi |-> 0, lo |-> 5]
Str(len)      == [tag |-> "String",    neg |-> FALSE, hi |-> 0, lo |-> len]
Composite     == [tag |-> "Composite", neg |-> FALSE, hi |-> 0, lo |-> 0]

\* isinstance checks of Python: bool is a subclass of int
is_none(v)   == v.tag = "Null"
is_nested(v) == v.tag = "Composite"
is_str(v)    == v.tag = "String"
is_float(v)  == v.tag = "Float"
is_bool(v)   == v.tag = "Boolean"
is_int(v)    == v.tag \in {"Integer", "Boolean"}

\* integer arithmetic on the sign-magnitude form
int_abs_mut(v) == v
int_abs(v) == [v EXCEPT !.neg = FALSE]
IsZero(v)     == v.hi = 0 /\ v.lo = 0
MagLess(x, y) == x.hi < y.hi \/ (x.hi = y.hi /\ x.lo < y.lo)
IntLess(x, y) ==
    LET xn == x.neg /\ ~IsZero(x)
        yn == y.neg /\ ~IsZero(y)
    IN  IF xn /\ ~yn THEN TRUE
        ELSE IF ~xn /\ yn THEN FALSE
        ELSE IF xn THEN MagLess(y, x)
        ELSE MagLess(x, y)

RECURSIVE int_max(_)
int_max(s) ==
    IF Len(s) = 1 THEN s[1]
    ELSE LET m == int_max(Tail(s))
         IN  IF IntLess(s[1], m) THEN m ELSE s[1]

RECURSIVE len_max(_)
len_max(s) ==
    IF Len(s) = 0 THEN 0
    ELSE LET m == len_max(Tail(s))
         IN  IF s[1].lo > m THEN s[1].lo ELSE m

VarcharMax == 255
Int32LimitHi == 32768
Int32Limit == MkInt(FALSE, Int32LimitHi, 0)          \* 2147483648

(***************************************************************************)
(* _determine_column_type                                                  *)
(***************************************************************************)
integers_of_mut(non_null_values) == SelectSeq(non_null_values, is_int)
integers_of(non_null_values) ==
    SelectSeq(non_null_values, LAMBDA v : is_int(v) /\ ~is_bool(v))

is_big_mut(max_value) == IntLess(Int32Limit, max_value)
is_big(max_value) == ~IntLess(max_value, Int32Limit)

determine_column_type(vals) ==
    LET non_null_values == SelectSeq(vals, LAMBDA v : ~is_none(v))
        has_nested == \E i \in DOMAIN non_null_values : is_nested(non_null_values[i])
        has_string == \E i \in DOMAIN non_null_values : is_str(non_null_values[i])
        max_length == len_max(SelectSeq(non_null_values, is_str))
        has_float  == \E i \in DOMAIN non_null_values : is_float(non_null_values[i])
        integers   == integers_of(non_null_values)
        has_bool   == \E i \in DOMAIN non_null_values : is_bool(non_null_values[i])
    IN  IF Len(non_null_values) = 0 THEN "TEXT"
        ELSE IF has_nested THEN "JSON"
        ELSE IF has_string THEN
            (IF max_length > VarcharMax THEN "TEXT" ELSE "VARCHAR(255)")
        ELSE IF has_float THEN "DOUBLE"
        ELSE IF Len(integers) > 0 THEN
            (IF is_big(int_max([i \in 1..Len(integers) |-> int_abs(integers[i])])) THEN "BIGINT" ELSE "INT")
        ELSE IF has_bool THEN "BOOLEAN"
        ELSE "TEXT"

(***************************************************************************)
(* Records.  A record (Python dict) is a sequence of [k, v] pairs with     *)
(* distinct keys, in insertion order.  A field name is the rank of the     *)
(* name in lexicographic order (1 = "a", 2 = "b", 3 = "c").                *)
(***************************************************************************)
record_keys(record) == [i \in 1..Len(record) |-> record[i].k]

record_get(record, col) ==
    LET hits == SelectSeq(record, LAMBDA p : p.k = col)
    IN  IF Len(hits) = 0 THEN Null ELSE hits[1].v

record_values(record) == [i \in 1..Len(record) |-> record[i].v]

Range(s) == {s[i] : i \in DOMAIN s}

\* all_keys = set(); for record in json_data: all_keys.update(record.keys())
RECURSIVE all_keys_of(_)
all_keys_of(json_data) ==
    IF Len(json_data) = 0 THEN {}
    ELSE Range(record_keys(json_data[1])) \cup all_keys_of(Tail(json_data))

\* sorted(list(S))
RECURSIVE sorted(_)
sorted(S) ==
    IF S = {} THEN <<>>
    ELSE LET m == CHOOSE x \in S : \A y \in S : x <= y
         IN  <<m>> \o sorted(S \ {m})

\* keys in order of first appearance (what an unsorted key list would give)
RECURSIVE first_seen(_, _)
first_seen(ks, seen) ==
    IF Len(ks) = 0 THEN <<>>
    ELSE IF ks[1] \in seen THEN first_seen(Tail(ks), seen)
    ELSE <<ks[1]>> \o first_seen(Tail(ks), seen \cup {ks[1]})

RECURSIVE flat_keys(_)
flat_keys(json_data) ==
    IF Len(json_data) = 0 THEN <<>>
    ELSE record_keys(json_data[1]) \o flat_keys(Tail(json_data))

sorted_columns_of_mut(json_data) == first_seen(flat_keys(json_data), {})
sorted_columns_of(json_data) == sorted(all_keys_of(json_data))

\* column_types[key] = _determine_column_type([record.get(key) for record in json_data])
column_types_of(json_data, sorted_columns) ==
    [j \in 1..Len(sorted_columns) |->
        determine_column_type(
            [i \in 1..Len(json_data) |-> record_get(json_data[i], sorted_columns[j])])]

\* the column list of the CREATE TABLE statement, after the surrogate key id
create_sql_columns(sorted_columns) == [j \in 1..Len(sorted_columns) |-> sorted_columns[j]]

\* insert_json_data: values = [tuple(record.get(col) for col in columns) for record in json_data]
build_rows_mut(json_data, columns) ==
    [i \in 1..Len(json_data) |-> record_values(json_data[i])]
build_rows(json_data, columns) ==
    [i \in 1..Len(json_data) |->
        [j \in 1..Len(columns) |-> record_get(json_data[i], columns[j])]]

(***************************************************************************)
(* Storage: one MySQL session, autocommit off.  A data-definition          *)
(* statement (DROP TABLE, CREATE TABLE) commits the open transaction and   *)
(* takes effect at once; inserted rows are pending until COMMIT and are    *)
(* discarded by ROLLBACK.                                                  *)
(***************************************************************************)
Tables  == 1..MaxFiles
NoTable == [exists |-> FALSE, cols |-> <<>>, types |-> <<>>, rows |-> <<>>]
NoPend  == [t \in Tables |-> <<>>]

Commit(st) ==
    [db   |-> [t \in Tables |-> [st.db[t] EXCEPT !.rows = @ \o st.pend[t]]],
     pend |-> NoPend]

Rollback_mut(st) == st
Rollback(st) == [st EXCEPT !.pend = NoPend]

DropTable(st, t) == [Commit(st) EXCEPT !.db[t] = NoTable]

CreateTable(st, t, cols, types) ==
    [Commit(st) EXCEPT !.db[t] =
        [exists |-> TRUE, cols |-> cols, types |-> types, rows |-> <<>>]]

\* DROP TABLE IF EXISTS followed by CREATE TABLE
recreate_mut(st, t, cols, types) ==
    IF st.db[t].exists THEN Commit(st) ELSE CreateTable(st, t, cols, types)
recreate(st, t, cols, types) == CreateTable(DropTable(st, t), t, cols, types)

InsertRows(st, t, rows) == [st EXCEPT !.pend[t] = @ \o rows]

\* cursor.executemany is handed the raw Python values; the connector has no
\* conversion for dict or list and raises
InsertRaises(rows) ==
    \E i \in DOMAIN rows : \E j \in DOMAIN rows[i] : is_nested(rows[i][j])

(***************************************************************************)
(* File contents as json.load sees them.                                   *)
(*   malformed  : not JSON, json.load raises JSONDecodeError               *)
(*   falsy      : null, 0, false or ""                                     *)
(*   nonrecords : a truthy scalar, or an array with a non-object element   *)
(*   dict       : one object (rec)                                         *)
(*   list       : an array of objects (items)                              *)
(***************************************************************************)
Content(kind, rec, items) == [kind |-> kind, rec |-> rec, items |-> items]

\* not json_data or (isinstance(json_data, list) and len(json_data) == 0)
is_empty_mut(c) == c.kind = "falsy" \/ (c.kind = "list" /\ Len(c.items) = 0)
is_empty(c) ==
    \/ c.kind = "falsy"
    \/ c.kind = "dict" /\ Len(c.rec) = 0
    \/ c.kind = "list" /\ Len(c.items) = 0

\* if isinstance(json_data, dict): json_data = [json_data]
normalize_mut(c) == c.items
normalize(c) == IF c.kind = "dict" THEN <<c.rec>> ELSE c.items

\* the except clauses of import_json_file
handler_catches_mut(exc) == exc = "JSONDecodeError"
handler_catches(exc) == exc \in {"JSONDecodeError", "Exception"}

Stmt(op, t) == [op |-> op, file |-> t]

\* the statements create_table_from_json executes, in order
create_stmts_mut(t) == <<Stmt("DROP", t), Stmt("CREATE", t), Stmt("COMMIT", t)>>
create_stmts(t) == <<Stmt("DROP", t), Stmt("CREATE", t)>>

(***************************************************************************)
(* import_json_file on storage st; fail names the statement at which the   *)
(* server reports an error ("none" when it reports none).  reached tells   *)
(* how far the call got: 0 parsing, 1 record set normalized, 2 CREATE      *)
(* TABLE issued, 3 create_table_from_json returned and rows were bound.    *)
(***************************************************************************)
import_json_file(st, entry, fail) ==
    LET t         == entry.name
        c         == entry.content
        json_data == normalize(c)
        columns   == sorted_columns_of(json_data)
        types     == column_types_of(json_data, columns)
        rows      == build_rows(json_data, columns)
        st1       == DropTable(st, t)
        st2       == recreate(st, t, create_sql_columns(columns), types)
        st3       == InsertRows(st2, t, rows)
        Out(s, ok, msg, raised, issued, reached) ==
            [st |-> s, success |-> ok, msg |-> msg, raised |-> raised,
             issued |-> issued,
             json_data   |-> IF reached >= 1 THEN json_data ELSE <<>>,
             create_cols |-> IF reached >= 2 THEN create_sql_columns(columns) ELSE <<>>,
             types       |-> IF reached >= 2 THEN types ELSE <<>>,
             columns     |-> IF reached >= 3 THEN columns ELSE <<>>,
             rows        |-> IF reached >= 3 THEN rows ELSE <<>>,
             reached     |-> reached]
        Raise(s, exc, msg, issued, reached) ==
            IF handler_catches(exc)
            THEN Out(Rollback(s), FALSE, msg, FALSE,
                     issued \o <<Stmt("ROLLBACK", t)>>, reached)
            ELSE Out(s, FALSE, msg, TRUE, issued, reached)
        D == SubSeq(create_stmts(t), 1, 1)
        C == SubSeq(create_stmts(t), 2, Len(create_stmts(t)))
        I == <<Stmt("INSERT", t)>>
        K == <<Stmt("COMMIT", t)>>
    IN  IF c.kind = "malformed" THEN Raise(st, "JSONDecodeError", "invalid", <<>>, 0)
        ELSE IF is_empty(c) THEN Out(st, FALSE, "empty", FALSE, <<>>, 0)
        ELSE IF c.kind = "nonrecords" THEN Raise(st, "Exception", "error", <<>>, 0)
        ELSE IF Len(json_data) = 0 THEN Out(st, FALSE, "nocreate", FALSE, <<>>, 1)
        ELSE IF fail = "drop" THEN Raise(st, "Exception", "error", D, 1)
        ELSE IF fail = "create" THEN Raise(st1, "Exception", "error", D \o C, 2)
        ELSE IF fail = "insert" \/ InsertRaises(rows)
             THEN Raise(st2, "Exception", "error", D \o C \o I, 3)
        ELSE IF fail = "commit" THEN Raise(st3, "Exception", "error", D \o C \o I \o K, 3)
        ELSE Out(Commit(st3), TRUE, "ok", FALSE, D \o C \o I \o K, 3)

Failures == {"none", "drop", "create", "insert", "commit"}

\* import_directory: if success: successful_imports.append(name) else: failed_imports.append(name)
record_result_mut(lists, name, success) ==
    IF success THEN [lists EXCEPT !.ok = Append(@, name)] ELSE lists
record_result(lists, name, success) ==
    IF success THEN [lists EXCEPT !.ok = Append(@, name)]
    ELSE [lists EXCEPT !.failed = Append(@, name)]

\* list(Path(directory_path).glob('*.json')): the matching entries, in listing order
glob_json(listing) ==
    SelectSeq([i \in 1..Len(listing) |-> i], LAMBDA i : listing[i].ext = "json")

NoSummary == [total |-> 0 - 1, successful |-> 0, failed |-> 0,
              success_files |-> <<>>, failed_files |-> <<>>]

NoRet == [file |-> 0, success |-> FALSE, msg |-> "none", pre |-> <<>>,
          json_data |-> <<>>, create_cols |-> <<>>, columns |-> <<>>,
          types |-> <<>>, rows |-> <<>>, reached |-> 0, run |-> 0]

Snapshot(tbl) == [cols |-> tbl.cols, types |-> tbl.types, nrows |-> Len(tbl.rows)]

(***************************************************************************)
(* import_directory                                                        *)
(***************************************************************************)
ImportDirectoryStart ==
    /\ pc \in {"idle", "returned"}
    /\ runs < MaxRuns
    /\ runs' = runs + 1
    /\ json_files' = glob_json(files)
    /\ idx' = 0
    /\ successful_imports' = <<>>
    /\ failed_imports' = <<>>
    /\ stmts' = <<>>
    /\ calls' = <<>>
    /\ IF Len(glob_json(files)) = 0
       THEN /\ pc' = "returned"
            /\ summary' = [total |-> 0, successful |-> 0, failed |-> 0,
                           success_files |-> <<>>, failed_files |-> <<>>]
       ELSE /\ pc' = "loop"
            /\ summary' = NoSummary
    /\ UNCHANGED <<files, db, pend, ret, imported, inferVars, guiVars>>

ImportNextFile ==
    /\ pc = "loop"
    /\ idx < Len(json_files)
    /\ \E fail \in Failures :
       \E r \in {import_json_file([db |-> db, pend |-> pend], files[json_files[idx + 1]], fail)} :
       \E lists \in {record_result([ok |-> successful_imports, failed |-> failed_imports],
                                   files[json_files[idx + 1]].name, r.success)} :
        LET name == files[json_files[idx + 1]].name
        IN  /\ db' = r.st.db
            /\ pend' = r.st.pend
            /\ stmts' = stmts \o r.issued
            /\ calls' = Append(calls, [file |-> name, success |-> r.success, msg |-> r.msg])
            /\ ret' = [file |-> name, success |-> r.success, msg |-> r.msg,
                       pre |-> db, json_data |-> r.json_data,
                       create_cols |-> r.create_cols, columns |-> r.columns,
                       types |-> r.types, rows |-> r.rows,
                       reached |-> r.reached, run |-> runs]
            /\ imported' = IF r.success
                           THEN [imported EXCEPT ![name] = @ \cup {Snapshot(r.st.db[name])}]
                           ELSE imported
            /\ IF r.raised
               THEN /\ pc' = "raised"
                    /\ UNCHANGED <<idx, successful_imports, failed_imports>>
               ELSE /\ pc' = pc
                    /\ idx' = idx + 1
                    /\ successful_imports' = lists.ok
                    /\ failed_imports' = lists.failed
    /\ UNCHANGED <<files, json_files, summary, runs, inferVars, guiVars>>

ImportDirectoryReturn ==
    /\ pc = "loop"
    /\ idx = Len(json_files)
    /\ pc' = "returned"
    /\ summary' = [total |-> Len(json_files),
                   successful |-> Len(successful_imports),
                   failed |-> Len(failed_imports),
                   success_files |-> successful_imports,
                   failed_files |-> failed_imports]
    /\ UNCHANGED <<files, db, pend, json_files, idx, successful_imports,
                   failed_imports, ret, stmts, imported, calls, runs, inferVars,
                   guiVars>>

NextDir == ImportDirectoryStart \/ ImportNextFile \/ ImportDirectoryReturn

(***************************************************************************)
(* _determine_column_type as a step on its own                             *)
(***************************************************************************)
DetermineColumnType ==
    /\ column_type = "none"
    /\ column_type' = determine_column_type(values)
    /\ UNCHANGED <<values, dirVars, guiVars>>

NextInfer == DetermineColumnType

(***************************************************************************)
(* ImporterGUI: the form, its two buttons and its background threads       *)
(***************************************************************************)
\* update_import_button_state
button_state(verified, directory) ==
    IF verified /\ directory # 0 THEN "normal" ELSE "disabled"

TestSlots   == 1..MaxTests
ImportSlots == 1..MaxImports
IdleTest    == [pc |-> "idle", ver |-> 0, ok |-> FALSE]

\* <KeyRelease> in a connection entry
OnConnectionFieldChanged ==
    /\ form.ver < MaxEdits
    /\ \E filled \in BOOLEAN : form' = [ver |-> form.ver + 1, filled |-> filled]
    /\ connection_verified' = FALSE
    /\ execute_btn' = button_state(FALSE, directory_var)
    /\ UNCHANGED <<directory_var, test_conn_btn, test_threads, import_threads, tested,
                   inferVars, dirVars>>

\* Browse...: a directory is chosen; the trace on directory_var updates the button
BrowseDirectory ==
    /\ directory_var' = 1
    /\ execute_btn' = button_state(connection_verified, 1)
    /\ UNCHANGED <<connection_verified, test_conn_btn, form, test_threads,
                   import_threads, tested, inferVars, dirVars>>

\* Test Connection clicked with valid entries (invalid ones only show a message)
TestConnection ==
    /\ test_conn_btn = "normal"
    /\ form.filled
    /\ \E s \in TestSlots :
          /\ test_threads[s].pc = "idle"
          /\ \A r \in TestSlots : r < s => test_threads[r].pc # "idle"
          /\ test_threads' = [test_threads EXCEPT ![s] = [IdleTest EXCEPT !.pc = "started"]]
    /\ test_conn_btn' = "disabled"
    /\ UNCHANGED <<connection_verified, directory_var, execute_btn, form,
                   import_threads, tested, inferVars, dirVars>>

\* run_connection_test: the entries are read and the server answers
RunConnectionTestConnect(s) ==
    /\ test_threads[s].pc = "started"
    /\ \E ok \in BOOLEAN :
          /\ test_threads' = [test_threads EXCEPT ![s] =
                                 [pc |-> "connected", ver |-> form.ver, ok |-> ok]]
          /\ tested' = IF ok THEN tested \cup {form.ver} ELSE tested
    /\ UNCHANGED <<connection_verified, directory_var, execute_btn, test_conn_btn,
                   form, import_threads, inferVars, dirVars>>

\* run_connection_test: connection_verified is set from the outcome
RunConnectionTestResult(s) ==
    /\ test_threads[s].pc = "connected"
    /\ connection_verified' = test_threads[s].ok
    /\ test_threads' = [test_threads EXCEPT ![s].pc = "reported"]
    /\ UNCHANGED <<directory_var, execute_btn, test_conn_btn, form, import_threads,
                   tested, inferVars, dirVars>>

\* run_connection_test: the finally block
RunConnectionTestFinally(s) ==
    /\ test_threads[s].pc = "reported"
    /\ test_conn_btn' = "normal"
    /\ execute_btn' = button_state(connection_verified, directory_var)
    /\ test_threads' = [test_threads EXCEPT ![s] = IdleTest]
    /\ UNCHANGED <<connection_verified, directory_var, form, import_threads, tested,
                   inferVars, dirVars>>

\* validate_import_inputs
validate_import_inputs(verified, directory) == verified /\ directory # 0

\* Execute Import clicked and the inputs validate (otherwise only a message)
ExecuteImport ==
    /\ execute_btn = "normal"
    /\ validate_import_inputs(connection_verified, directory_var)
    /\ \E s \in ImportSlots :
          /\ import_threads[s] = "idle"
          /\ \A r \in ImportSlots : r < s => import_threads[r] # "idle"
          /\ import_threads' = [import_threads EXCEPT ![s] = "started"]
    /\ execute_btn' = "disabled"
    /\ test_conn_btn' = "disabled"
    /\ UNCHANGED <<connection_verified, directory_var, form, test_threads, tested,
                   inferVars, dirVars>>

\* run_import: JSONtoMySQL(...) connects, or raises and the run goes to its handlers
RunImportConnect(s) ==
    /\ import_threads[s] = "started"
    /\ \E ok \in BOOLEAN :
          import_threads' = [import_threads EXCEPT ![s] = IF ok THEN "importing" ELSE "failed"]
    /\ UNCHANGED <<connection_verified, directory_var, execute_btn, test_conn_btn,
                   form, test_threads, tested, inferVars, dirVars>>

\* run_import: the files are imported and the connection is closed
RunImportFiles(s) ==
    /\ import_threads[s] = "importing"
    /\ import_threads' = [import_threads EXCEPT ![s] = "finishing"]
    /\ UNCHANGED <<connection_verified, directory_var, execute_btn, test_conn_btn,
                   form, test_threads, tested, inferVars, dirVars>>

\* run_import: the finally block
RunImportFinally(s) ==
    /\ import_threads[s] \in {"finishing", "failed"}
    /\ execute_btn' = "normal"
    /\ test_conn_btn' = "normal"
    /\ import_threads' = [import_threads EXCEPT ![s] = "idle"]
    /\ UNCHANGED <<connection_verified, directory_var, form, test_threads, tested,
                   inferVars, dirVars>>

NextGui ==
    \/ OnConnectionFieldChanged
    \/ BrowseDirectory
    \/ TestConnection
    \/ \E s \in TestSlots : RunConnectionTestConnect(s)
    \/ \E s \in TestSlots : RunConnectionTestResult(s)
    \/ \E s \in TestSlots : RunConnectionTestFinally(s)
    \/ ExecuteImport
    \/ \E s \in ImportSlots : RunImportConnect(s)
    \/ \E s \in ImportSlots : RunImportFiles(s)
    \/ \E s \in ImportSlots : RunImportFinally(s)

\* ImporterGUI.__init__: nothing verified, no directory, Execute Import disabled,
\* user name and password still empty
GuiIdle ==
    /\ connection_verified = FALSE
    /\ directory_var = 0
    /\ execute_btn = button_state(FALSE, 0)
    /\ test_conn_btn = "normal"
    /\ form = [ver |-> 0, filled |-> FALSE]
    /\ test_threads = [s \in TestSlots |-> IdleTest]
    /\ import_threads = [s \in ImportSlots |-> "idle"]
    /\ tested = {}

(***************************************************************************)
(* Initial states                                                          *)
(***************************************************************************)
SeqsUpTo(S, n) == UNION {[1..m -> S] : m \in 0..n}

ValuePool ==
    {Null, Bool(TRUE), Bool(FALSE), Float, Composite,
     Str(3), Str(VarcharMax), Str(VarcharMax + 1),
     MkInt(FALSE, 0, 7),
     MkInt(FALSE, Int32LimitHi - 1, LimbBase - 1),      \*  2147483647
     MkInt(FALSE, Int32LimitHi, 0),                     \*  2147483648
     MkInt(TRUE,  Int32LimitHi - 1, LimbBase - 1),      \* -2147483647
     MkInt(TRUE,  Int32LimitHi, 0)}                     \* -2147483648

OldTable == [exists |-> TRUE, cols |-> <<9>>, types |-> <<"INT">>,
             rows |-> << <<MkInt(FALSE, 0, 1)>> >>]

Pair(k, v) == [k |-> k, v |-> v]

ContentPool ==
    {Content("malformed", <<>>, <<>>),
     Content("falsy", <<>>, <<>>),
     Content("nonrecords", <<>>, <<>>),
     Content("list", <<>>, <<>>),                                        \* []
     Content("dict", <<>>, <<>>),                                        \* {}
     Content("dict", <<Pair(2, MkInt(FALSE, 0, 7)), Pair(1, Str(3))>>, <<>>),
     Content("list", <<>>, << <<Pair(2, Str(3)), Pair(1, MkInt(FALSE, 0, 30))>>,
                              <<Pair(2, Str(2))>> >>),                   \* users.json
     Content("list", <<>>, << <<Pair(3, Composite)>> >>)}                \* nested.json

EntryPool ==
    {[ext |-> "json", content |-> c] : c \in ContentPool}
    \cup {[ext |-> "txt", content |-> Content("list", <<>>, << <<Pair(1, Null)>> >>)]}

Listings ==
    UNION {{[i \in 1..n |-> [name |-> i, ext |-> e[i].ext, content |-> e[i].content]] :
                e \in [1..n -> EntryPool]} : n \in 0..MaxFiles}

Fields    == {1, 2, 3}
\* field 2 holds an explicit null or a number, the other fields a number
GenValues(k) == IF k = 2 THEN {Null, MkInt(FALSE, 0, 7)} ELSE {MkInt(FALSE, 0, 7)}

DistinctKeys(r) == \A i, j \in DOMAIN r : i # j => r[i].k # r[j].k
GenRecords ==
    {r \in SeqsUpTo(UNION {{Pair(k, v) : v \in GenValues(k)} : k \in Fields}, MaxKeys) :
        DistinctKeys(r)}
GenRecordSets == UNION {[1..n -> GenRecords] : n \in 1..MaxRecs}

DirIdle ==
    /\ pend = NoPend
    /\ pc = "idle"
    /\ json_files = <<>>
    /\ idx = 0
    /\ successful_imports = <<>>
    /\ failed_imports = <<>>
    /\ summary = NoSummary
    /\ ret = [NoRet EXCEPT !.pre = db]
    /\ stmts = <<>>
    /\ calls = <<>>
    /\ imported = [t \in Tables |-> {}]

InitDir ==
    /\ values = <<>>
    /\ column_type = "none"
    /\ files \in Listings
    /\ db \in {[t \in Tables |-> x] : x \in {NoTable, OldTable}}
    /\ runs = 0
    /\ DirIdle
    /\ GuiIdle

InitSchema ==
    /\ values = <<>>
    /\ column_type = "none"
    /\ files \in {<<[name |-> 1, ext |-> "json", content |-> Content("list", <<>>, rs)]>> :
                     rs \in GenRecordSets}
    /\ db = [t \in Tables |-> NoTable]
    /\ runs = MaxRuns - 1                 \* the file is imported by one call
    /\ DirIdle
    /\ GuiIdle

InitInfer ==
    /\ values \in SeqsUpTo(ValuePool, MaxVals)
    /\ column_type = "none"
    /\ files = <<>>
    /\ db = [t \in Tables |-> NoTable]
    /\ runs = MaxRuns
    /\ DirIdle
    /\ GuiIdle

Spec       == InitDir /\ [][NextDir]_vars
SpecSchema == InitSchema /\ [][NextDir]_vars
SpecInfer  == InitInfer /\ [][NextInfer]_vars

InitGui ==
    /\ values = <<>>
    /\ column_type = "none"
    /\ files = <<>>
    /\ db = [t \in Tables |-> NoTable]
    /\ runs = MaxRuns
    /\ DirIdle
    /\ GuiIdle

SpecGui    == InitGui /\ [][NextGui]_vars

(***************************************************************************)
(* Properties                                                              *)
(***************************************************************************)
Called    == ret.file # 0 /\ ret.run = runs
FileOf(n) == files[n]                          \* entry i of the listing is named i
StmtsOf(n) == SelectSeq(stmts, LAMBDA x : x.file = n)
Touching  == {"DROP", "CREATE", "INSERT"}

\* C1: after import_json_file returns, the target table is either the fully
\* imported new table (success) or exactly what it was before the call (failure).
C1_PerFileAtomicity ==
    Called =>
        IF ret.success
        THEN db[ret.file] = [exists |-> TRUE, cols |-> ret.create_cols,
                             types |-> ret.types, rows |-> ret.rows]
        ELSE db[ret.file] = ret.pre[ret.file]

C3_SummaryPartition ==
    pc = "returned" =>
        LET names == {files[json_files[i]].name : i \in DOMAIN json_files}
            ok    == Range(summary.success_files)
            bad   == Range(summary.failed_files)
        IN  /\ summary.total = Len(json_files)
            /\ summary.total = summary.successful + summary.failed
            /\ summary.successful = Len(summary.success_files)
            /\ summary.failed = Len(summary.failed_files)
            /\ Cardinality(ok) = Len(summary.success_files)
            /\ Cardinality(bad) = Len(summary.failed_files)
            /\ ok \cap bad = {}
            /\ ok \cup bad = names
            /\ \A i \in DOMAIN calls :
                  /\ (calls[i].file \in ok) <=> calls[i].success
                  /\ calls[i].success <=> (calls[i].msg = "ok")
                  /\ calls[i].success =>
                        /\ db[calls[i].file].exists
                        /\ Len(db[calls[i].file].rows) > 0
                        /\ \E k \in DOMAIN stmts : stmts[k] = Stmt("COMMIT", calls[i].file)
                  /\ calls[i].msg \in {"empty", "invalid"} => calls[i].file \in bad
            /\ pend = NoPend

C3_Witness ==
    /\ pc = "returned"
    /\ summary.successful = 1
    /\ summary.failed = 1
    /\ \E i \in DOMAIN calls : calls[i].msg = "empty"

\* C4: a file that is an empty array, parses to nothing (null, 0, false, "",
\* {}) or is malformed makes import_json_file return failure without issuing
\* DROP, CREATE or INSERT, and leaves every table unchanged.
ParsesToNothing(c) ==
    \/ c.kind \in {"malformed", "falsy"}
    \/ c.kind \in {"dict", "list"} /\ c.rec = <<>> /\ c.items = <<>>

C4_SkippedFileTouchesNoTable ==
    (Called /\ ParsesToNothing(FileOf(ret.file).content)) =>
        /\ ~ret.success
        /\ db = ret.pre
        /\ pend = NoPend
        /\ \A i \in DOMAIN stmts : stmts[i].file = ret.file => stmts[i].op \notin Touching

C4_Witness ==
    /\ Called
    /\ FileOf(ret.file).content.kind = "malformed"
    /\ ret.msg = "invalid"
    /\ db[ret.file] = OldTable

(***************************************************************************)
(* Schema and rows (SpecSchema)                                            *)
(***************************************************************************)
PermsOf(s) == {[i \in DOMAIN s |-> s[p[i]]] : p \in Permutations(DOMAIN s)}

\* the record sets with the same records in another order, or with one record's
\* fields in another order; the generated record sets are closed under both,
\* so every reordering of a record set is a chain of these
Reorderings(rs) ==
    PermsOf(rs) \cup UNION {{[rs EXCEPT ![i] = r] : r \in PermsOf(rs[i])} : i \in DOMAIN rs}

\* C5: the column list of CREATE TABLE (after id) is the ascending,
\* duplicate-free union of the field names of all records, is the same for
\* every order of the records and of the fields inside a record, and is the
\* list returned for INSERT.
C5_ColumnsSortedUnion ==
    (Called /\ ret.reached >= 2) =>
        LET cols == ret.create_cols
            rs   == ret.json_data
        IN  /\ \A j \in 1..Len(cols) - 1 : cols[j] < cols[j + 1]
            /\ Range(cols) = UNION {{rs[i][j].k : j \in DOMAIN rs[i]} : i \in DOMAIN rs}
            /\ \A q \in Reorderings(rs) : sorted_columns_of(q) = cols
            /\ ret.reached >= 3 => ret.columns = cols

C5_Witness ==
    /\ Called
    /\ ret.success
    /\ Len(ret.json_data) = 2
    /\ record_keys(ret.json_data[1]) = <<3, 1>>
    /\ record_keys(ret.json_data[2]) = <<2, 1>>
    /\ ret.create_cols = <<1, 2, 3>>

\* C9: insert_json_data binds one row per record and one value per schema
\* column in schema order: the record's value for the field when the record
\* has it, Null when it lacks it.
C9_RowsBoundPerColumn ==
    (Called /\ ret.reached >= 3) =>
        /\ Len(ret.rows) = Len(ret.json_data)
        /\ \A i \in DOMAIN ret.rows :
              /\ Len(ret.rows[i]) = Len(ret.columns)
              /\ \A j \in DOMAIN ret.columns :
                    LET has == {p \in Range(ret.json_data[i]) : p.k = ret.columns[j]}
                    IN  IF has = {} THEN ret.rows[i][j] = Null
                        ELSE \A p \in has : ret.rows[i][j] = p.v

C9_Witness ==
    /\ Called
    /\ ret.success
    /\ Len(ret.rows) = 2
    /\ ret.columns = <<1, 2>>
    /\ record_keys(ret.json_data[1]) = <<2, 1>>
    /\ record_keys(ret.json_data[2]) = <<2>>
    /\ ret.rows[1] = <<MkInt(FALSE, 0, 7), MkInt(FALSE, 0, 7)>>
    /\ ret.rows[2] = <<Null, MkInt(FALSE, 0, 7)>>
    /\ db[ret.file].rows = ret.rows

(***************************************************************************)
(* Type inference (SpecInfer)                                              *)
(***************************************************************************)
NonNull == {i \in DOMAIN values : values[i].tag # "Null"}
AnyTagged(tag) == \E i \in NonNull : values[i].tag = tag

IntegersOnly == NonNull # {} /\ \A i \in NonNull : values[i].tag = "Integer"

C7_IntegerWidth ==
    (column_type # "none" /\ IntegersOnly) =>
        /\ column_type \in {"BIGINT", "INT"}
        /\ (column_type = "BIGINT") <=> (\E i \in NonNull : values[i].hi >= 32768)
        /\ values = <<MkInt(FALSE, 32767, 65535)>> => column_type = "INT"
        /\ values = <<MkInt(FALSE, 32768, 0)>> => column_type = "BIGINT"

C7_Witness ==
    /\ column_type = "BIGINT"
    /\ values = <<MkInt(FALSE, 32767, 65535), Null, MkInt(FALSE, 32768, 0)>>

\* C8 as stated: an integer-only field whose only value is -2147483648 is INT.
C8_MinInt32IsInt ==
    (column_type # "none" /\ values = <<MkInt(TRUE, 32768, 0)>>) => column_type = "INT"

\* C8 amended: an integer-only field whose only value is -2147483648 is
\* BIGINT, because its absolute value 2^31 reaches the BIGINT limit.
C8_MinInt32IsBigint ==
    (column_type # "none" /\ values = <<MkInt(TRUE, 32768, 0)>>) => column_type = "BIGINT"

C8_Witness ==
    /\ values = <<MkInt(TRUE, 32768, 0)>>
    /\ column_type = "BIGINT"

(***************************************************************************)
(* Re-import                                                               *)
(***************************************************************************)
\* C10: every successful import of a file leaves its table with the same
\* schema and the same number of rows, the number of records in the file,
\* whatever the table held before and however often the file was imported.
C10_ReimportIdempotent ==
    \A t \in Tables : \A s \in imported[t] :
        /\ imported[t] = {s}
        /\ s.nrows = Len(normalize(FileOf(t).content))
        /\ (Called /\ ret.file = t /\ ret.success) => Snapshot(db[t]) = s

C10_Witness ==
    \E t \in Tables :
        /\ Called /\ ret.file = t /\ ret.success
        /\ runs = 2
        /\ ret.pre[t] = db[t]
        /\ Len(db[t].rows) = 2
        /\ imported[t] = {Snapshot(db[t])}

(***************************************************************************)
(* Nested values, statement order, transaction resolution, normalization   *)
(***************************************************************************)
OpsOf(n) == LET ss == StmtsOf(n) IN [i \in 1..Len(ss) |-> ss[i].op]
CountOp(n, op) == Cardinality({i \in DOMAIN stmts : stmts[i] = Stmt(op, n)})

\* C11: for every column inferred as JSON, the value handed to storage for a
\* nested object or array is its serialized form, never the raw nested value.
C11_NestedStoredSerialized ==
    (Called /\ ret.reached >= 3) =>
        \A i \in DOMAIN ret.rows : \A j \in DOMAIN ret.columns :
            ret.types[j] = "JSON" => ~is_nested(ret.rows[i][j])

\* C12: the statements of one file are contiguous (files follow one another in
\* listing order and none returns) and in the order DROP,
\* CREATE, INSERT, COMMIT; a COMMIT comes only after the INSERT (neither
\* create_table_from_json nor insert_json_data commits); the statements of a
\* file start only after the COMMIT or ROLLBACK of the file before it.
C12_StatementOrder ==
    /\ \A i \in 1..Len(stmts) - 1 :
          /\ stmts[i].file <= stmts[i + 1].file
          /\ stmts[i].file # stmts[i + 1].file => stmts[i].op \in {"COMMIT", "ROLLBACK"}
    /\ Len(stmts) > 0 => stmts[Len(stmts)].op \in {"COMMIT", "ROLLBACK"}
    /\ \A c \in DOMAIN calls :
          /\ calls[c].success => OpsOf(calls[c].file) = <<"DROP", "CREATE", "INSERT", "COMMIT">>
          /\ \A i \in DOMAIN OpsOf(calls[c].file) :
                OpsOf(calls[c].file)[i] = "COMMIT" =>
                    /\ i = 4
                    /\ SubSeq(OpsOf(calls[c].file), 1, 3) = <<"DROP", "CREATE", "INSERT">>

C12_Witness ==
    /\ pc = "returned"
    /\ Len(calls) = 2
    /\ calls[1].success /\ calls[2].success
    /\ Len(stmts) = 8
    /\ stmts[4] = Stmt("COMMIT", 1)
    /\ stmts[5] = Stmt("DROP", 2)

\* C13 as stated: a call that issues DROP, CREATE or INSERT issues exactly one
\* of COMMIT and ROLLBACK, as its last statement, never both and never
\* neither, and leaves nothing pending on the connection.
Transacting(n) == \E i \in DOMAIN stmts : stmts[i].file = n /\ stmts[i].op \in Touching

C13_ExactlyOneOfCommitRollback ==
    /\ pend = NoPend
    /\ \A c \in DOMAIN calls :
          Transacting(calls[c].file) =>
              /\ CountOp(calls[c].file, "COMMIT") + CountOp(calls[c].file, "ROLLBACK") = 1
              /\ OpsOf(calls[c].file)[Len(OpsOf(calls[c].file))] \in {"COMMIT", "ROLLBACK"}

\* C13 amended: such a call ends with a COMMIT exactly when it returns
\* success and with a ROLLBACK exactly when it returns failure; a ROLLBACK
\* follows a COMMIT only when that COMMIT raised; nothing is left pending.
C13_TransactionResolved ==
    /\ pend = NoPend
    /\ \A c \in DOMAIN calls :
          Transacting(calls[c].file) =>
              LET ops == OpsOf(calls[c].file)
              IN  /\ CountOp(calls[c].file, "COMMIT") <= 1
                  /\ CountOp(calls[c].file, "ROLLBACK") <= 1
                  /\ calls[c].success <=> ops[Len(ops)] = "COMMIT"
                  /\ ~calls[c].success <=> ops[Len(ops)] = "ROLLBACK"
                  /\ \A i \in DOMAIN ops : ops[i] \in {"COMMIT", "ROLLBACK"} => i >= Len(ops) - 1

C13_Witness ==
    /\ pc = "returned"
    /\ \E c \in DOMAIN calls :
          /\ ~calls[c].success
          /\ OpsOf(calls[c].file) = <<"DROP", "CREATE", "INSERT", "COMMIT", "ROLLBACK">>
    /\ \E c \in DOMAIN calls : calls[c].success

InFlight == {s \in ImportSlots : import_threads[s] # "idle"}

\* C15: at most one run_import thread is in flight, and while one is, the
\* Execute Import button is disabled.
C15_SingleImportInFlight ==
    /\ Cardinality(InFlight) <= 1
    /\ InFlight # {} => execute_btn = "disabled"

\* C16: whenever the Execute Import button is enabled, and whenever
\* connection_verified is true, a test has connected successfully with the
\* entries as they are now; an enabled button also means a directory is selected.
C16_EnabledMeansVerifiedCurrent ==
    /\ execute_btn = "normal" =>
          /\ connection_verified
          /\ form.ver \in tested
          /\ directory_var # 0
    /\ connection_verified => form.ver \in tested

====
